---- MODULE Spec2Model ----
(***************************************************************************)
(* Looping countdown streamer (src/src/Main.py, src/src/config.py).        *)
(*                                                                         *)
(* The model has four parts:                                               *)
(*   - the frame functions resize_letterbox and draw_centered_countdown,   *)
(*     each applied once to arguments drawn from bounded sets,             *)
(*   - the entry point (_verify_paths, mode dispatch),                     *)
(*   - the frame generator countdown_and_final_frames, one action per      *)
(*     stretch of code between two suspension or branch points,            *)
(*   - the streaming loop run_stream with the encoder subprocess and its   *)
(*     stdin pipe as the environment, and the preview loop run_preview.    *)
(*                                                                         *)
(* Time is counted in ticks; TicksPerSec ticks make one second, so that    *)
(* int(time.time() - start_ts) truncates.                                  *)
(***************************************************************************)
EXTENDS Integers, Sequences, FiniteSets, TLC

VARIABLES
    \* ---- environment and command line
    mode,          \* args.mode: "preview" or "stream"
    bgExists,      \* Path(cfg.BACKGROUND_VIDEO).exists()
    finExists,     \* Path(cfg.FINAL_VIDEO).exists()
    bgFrames,      \* number of frames the background source decodes
    finFrames,     \* number of frames the sting source decodes
    now,           \* time.time(), in ticks
    \* ---- main control flow
    pc,            \* position of the main thread
    exitStatus,    \* how the program ended ("running" while it has not)
    errors,        \* the "[ERROR] Missing file" lines printed, in order
    stopRequested, \* a KeyboardInterrupt has been delivered
    \* ---- run_stream
    procs,         \* every encoder subprocess spawned so far, in spawn order
    ffmpeg,        \* index in procs of the local variable ffmpeg (0: unbound)
    buffered,      \* frames held in the BufferedWriter of ffmpeg.stdin
    written,       \* per subprocess: ids of the frames its stdin.write() accepted
    frame,         \* the loop variable frame, from its yield to its use
    produced,      \* ids of the frames the current generator yielded to run_stream
    events,        \* what run_stream did since the last failure, in order
    sleepStart,    \* value of now when time.sleep(retry_delay) was entered
    \* ---- countdown_and_final_frames (the current generator object)
    genCount,      \* number of generator objects created so far
    gpc,           \* position of the generator
    cycle_secs,    \* its parameter
    start_ts,      \* its local start_ts
    left,          \* its local left
    bgOpen,        \* bg_cap is open
    finOpen,       \* fin_cap is open
    bgPos,         \* decode position of bg_cap
    finPos,        \* decode position of fin_cap
    phase,         \* phase the generator is in
    prevPhase,     \* phase it was in before the current one
    prevLeft,      \* left of the previous frame of this Countdown phase
    nth,           \* frames yielded in the current phase, saturating at 2
    \* ---- resize_letterbox and draw_centered_countdown (one call of each)
    src_w,         \* frame.shape[1] of the frame passed to resize_letterbox
    src_h,         \* frame.shape[0] of that frame
    target_w,      \* its parameter target_w
    target_h,      \* its parameter target_h
    boxed,         \* what the call of resize_letterbox came to
    secs_left,     \* the parameter secs_left of draw_centered_countdown
    drawn          \* what the call of draw_centered_countdown came to

vars == <<mode, bgExists, finExists, bgFrames, finFrames, now, pc, exitStatus,
          errors, stopRequested, procs, ffmpeg, buffered, written, frame,
          produced, events, sleepStart, genCount, gpc, cycle_secs, start_ts,
          left, bgOpen, finOpen, bgPos, finPos, phase, prevPhase, prevLeft, nth,
          src_w, src_h, target_w, target_h, boxed, secs_left, drawn>>

envVars  == <<mode, bgExists, finExists, bgFrames, finFrames>>
mainVars == <<pc, exitStatus, errors, stopRequested>>
procVars == <<procs, ffmpeg, buffered, written>>
loopVars == <<frame, produced, events, sleepStart>>
genVars  == <<genCount, gpc, cycle_secs, start_ts, left, bgOpen, finOpen,
              bgPos, finPos, phase, prevPhase, prevLeft, nth>>
compVars == <<src_w, src_h, target_w, target_h, boxed, secs_left, drawn>>

----------------------------------------------------------------------------
\* Bounds of the model

MaxBgFrames  == 2     \* the background source decodes 0..MaxBgFrames frames
MaxFinFrames == 2     \* the sting source decodes 0..MaxFinFrames frames
MaxNow       == 44    \* the clock stops after MaxNow ticks (sequencer runs)
MaxNowStream == 40    \* the clock stops after MaxNowStream ticks (whole program)
StreamTick   == 10    \* ticks per step of the clock (whole program)
MaxSpawns    == 2     \* encoder subprocesses spawned in one run
MaxFrames    == 4     \* frames one generator yields to run_stream

\* Program constants

COUNTDOWN_SECONDS == 30
RESOLUTION_W      == 1280
RESOLUTION_H      == 720
BUFSIZE           == 10485760
retry_delay       == 5
BreakAt           == 10
BytesPerPixel     == 3
TicksPerSec       == 2

NoTime  == 0 - 1
NoFrame == [phase |-> "none", pos |-> 0, overlay |-> FALSE, left |-> 0,
            start |-> NoTime, gen |-> 0, n |-> 0]

Min(a, b) == IF a <= b THEN a ELSE b

\* no call of resize_letterbox or draw_centered_countdown is under study
NotCalled == [called |-> FALSE]
NoComposition ==
    /\ src_w = 0
    /\ src_h = 0
    /\ target_w = 0
    /\ target_h = 0
    /\ boxed = NotCalled
    /\ secs_left = 0
    /\ drawn = NotCalled

----------------------------------------------------------------------------
\* The clock

\* time.time() advances; any number of steps of the clock may pass between
\* two steps of the program.  The clock is read by the generator and by
\* time.sleep only, so it is advanced where it is read: while time.sleep
\* runs and while a generator that has sampled start_ts runs.
Tick(cap, step) ==
    /\ pc \in {"pull", "preview_pull", "sequencer", "fail_sleep"}
    /\ gpc # "created"
    /\ now < cap
    /\ now' = now + step
    /\ UNCHANGED <<envVars, compVars, mainVars, procVars, loopVars, genVars>>

----------------------------------------------------------------------------
\* countdown_and_final_frames

\* the generator runs only while its caller waits in next()
Pulling == pc \in {"pull", "preview_pull", "sequencer"}

\* int(time.time() - start_ts)
Elapsed == (now - start_ts) \div TicksPerSec

\* the frame a yield hands over; gen and n say which generator yielded it
\* and as which of the frames run_stream received from it
MkFrame(ph, pos, ov, l) ==
    [phase |-> ph, pos |-> pos, overlay |-> ov, left |-> l,
     start |-> start_ts, gen |-> genCount, n |-> Len(produced) + 1]

FrameId(f) == [gen |-> f.gen, n |-> f.n]

\* yield: control returns to the caller's loop body with the frame
Yield(f) ==
    /\ frame' = f
    /\ IF pc = "pull"
       THEN /\ Len(produced) < MaxFrames
            /\ produced' = Append(produced, FrameId(f))
            /\ pc' = "write"
       ELSE IF pc = "preview_pull"
       THEN /\ pc' = "preview_show"
            /\ UNCHANGED produced
       ELSE UNCHANGED <<pc, produced>>

\* (mutant) the threshold is tested before the first frame is read
OpenBackgroundTestFirst ==
    /\ Pulling
    /\ gpc \in {"created", "open_bg"}
    /\ bgOpen' = (cycle_secs > BreakAt)
    /\ bgPos' = 0
    /\ start_ts' = now
    /\ prevPhase' = phase
    /\ phase' = "Countdown"
    /\ nth' = 0
    /\ gpc' = IF cycle_secs > BreakAt THEN "bg_read" ELSE "open_fin"
    /\ UNCHANGED <<envVars, compVars, now, mainVars, procVars, loopVars, genCount,
                   cycle_secs, left, finOpen, finPos, prevLeft>>

\* (mutant) start_ts is sampled once, when the generator starts
OpenBackgroundOneStart ==
    /\ Pulling
    /\ gpc \in {"created", "open_bg"}
    /\ bgOpen' = TRUE
    /\ bgPos' = 0
    /\ start_ts' = IF gpc = "created" THEN now ELSE start_ts
    /\ prevPhase' = phase
    /\ phase' = "Countdown"
    /\ nth' = 0
    /\ gpc' = "bg_read"
    /\ UNCHANGED <<envVars, compVars, now, mainVars, procVars, loopVars, genCount,
                   cycle_secs, left, finOpen, finPos, prevLeft>>

\* lines 96-97: open the background source, sample start_ts
OpenBackground ==
    /\ Pulling
    /\ gpc \in {"created", "open_bg"}
    /\ bgOpen' = TRUE
    /\ bgPos' = 0
    /\ start_ts' = now
    /\ prevPhase' = phase
    /\ phase' = "Countdown"
    /\ nth' = 0
    /\ gpc' = "bg_read"
    /\ UNCHANGED <<envVars, compVars, now, mainVars, procVars, loopVars, genCount,
                   cycle_secs, left, finOpen, finPos, prevLeft>>

\* lines 100, 105-109: a frame is decoded, composed and yielded
BgReadFrame ==
    /\ Pulling
    /\ gpc = "bg_read"
    /\ bgPos < bgFrames
    /\ left' = cycle_secs - Elapsed
    /\ prevLeft' = IF nth = 0 THEN cycle_secs ELSE left
    /\ nth' = Min(nth + 1, 2)
    /\ bgPos' = bgPos + 1
    /\ gpc' = "bg_yield"
    /\ Yield(MkFrame("Countdown", bgPos, TRUE, cycle_secs - Elapsed))
    /\ UNCHANGED <<envVars, compVars, now, exitStatus, errors, stopRequested, procVars,
                   events, sleepStart, genCount, cycle_secs, start_ts, bgOpen,
                   finOpen, finPos, phase, prevPhase>>

\* (mutant) the exhausted background source ends the Countdown phase
BgReadEofBreak ==
    /\ Pulling
    /\ gpc = "bg_read"
    /\ bgPos >= bgFrames
    /\ bgOpen' = FALSE
    /\ gpc' = "open_fin"
    /\ UNCHANGED <<envVars, compVars, now, mainVars, procVars, loopVars, genCount,
                   cycle_secs, start_ts, left, finOpen, bgPos, finPos,
                   phase, prevPhase, prevLeft, nth>>

\* lines 100-101: the background source is exhausted
BgReadEof ==
    /\ Pulling
    /\ gpc = "bg_read"
    /\ bgPos >= bgFrames
    /\ gpc' = "bg_seek"
    /\ UNCHANGED <<envVars, compVars, now, mainVars, procVars, loopVars, genCount,
                   cycle_secs, start_ts, left, bgOpen, finOpen, bgPos, finPos,
                   phase, prevPhase, prevLeft, nth>>

\* lines 102-103: seek to frame 0 and read again
BgSeek ==
    /\ Pulling
    /\ gpc = "bg_seek"
    /\ bgPos' = 0
    /\ gpc' = "bg_read"
    /\ UNCHANGED <<envVars, compVars, now, mainVars, procVars, loopVars, genCount,
                   cycle_secs, start_ts, left, bgOpen, finOpen, finPos,
                   phase, prevPhase, prevLeft, nth>>

\* (mutant) the phase ends only below BreakAt
BgResumeLate ==
    /\ Pulling
    /\ gpc = "bg_yield"
    /\ IF left < BreakAt
       THEN /\ bgOpen' = FALSE
            /\ gpc' = "open_fin"
       ELSE /\ gpc' = "bg_read"
            /\ UNCHANGED bgOpen
    /\ UNCHANGED <<envVars, compVars, now, mainVars, procVars, loopVars, genCount,
                   cycle_secs, start_ts, left, finOpen, bgPos, finPos,
                   phase, prevPhase, prevLeft, nth>>

\* (mutant) the loop is left without releasing the background source
BgResumeKeepOpen ==
    /\ Pulling
    /\ gpc = "bg_yield"
    /\ gpc' = IF left <= BreakAt THEN "open_fin" ELSE "bg_read"
    /\ UNCHANGED <<envVars, compVars, now, mainVars, procVars, loopVars, genCount,
                   cycle_secs, start_ts, left, bgOpen, finOpen, bgPos, finPos,
                   phase, prevPhase, prevLeft, nth>>

\* lines 111-114: resumed after a Countdown frame
BgResume ==
    /\ Pulling
    /\ gpc = "bg_yield"
    /\ IF left <= BreakAt
       THEN /\ bgOpen' = FALSE
            /\ gpc' = "open_fin"
       ELSE /\ gpc' = "bg_read"
            /\ UNCHANGED bgOpen
    /\ UNCHANGED <<envVars, compVars, now, mainVars, procVars, loopVars, genCount,
                   cycle_secs, start_ts, left, finOpen, bgPos, finPos,
                   phase, prevPhase, prevLeft, nth>>

\* line 117: open the sting source
OpenFinal ==
    /\ Pulling
    /\ gpc = "open_fin"
    /\ finOpen' = TRUE
    /\ finPos' = 0
    /\ prevPhase' = phase
    /\ phase' = "Sting"
    /\ nth' = 0
    /\ gpc' = "fin_read"
    /\ UNCHANGED <<envVars, compVars, now, mainVars, procVars, loopVars, genCount,
                   cycle_secs, start_ts, left, bgOpen, bgPos, prevLeft>>

\* lines 119, 122-123: a sting frame is decoded, letterboxed and yielded
FinReadFrame ==
    /\ Pulling
    /\ gpc = "fin_read"
    /\ finPos < finFrames
    /\ nth' = Min(nth + 1, 2)
    /\ finPos' = finPos + 1
    /\ gpc' = "fin_yield"
    /\ Yield(MkFrame("Sting", finPos, FALSE, 0))
    /\ UNCHANGED <<envVars, compVars, now, exitStatus, errors, stopRequested, procVars,
                   events, sleepStart, genCount, cycle_secs, start_ts, left,
                   bgOpen, finOpen, bgPos, phase, prevPhase, prevLeft>>

\* (mutant) the sting source is played again when it is exhausted
FinReadEofReplay ==
    /\ Pulling
    /\ gpc = "fin_read"
    /\ finPos >= finFrames
    /\ finOpen' = FALSE
    /\ gpc' = "open_fin"
    /\ UNCHANGED <<envVars, compVars, now, mainVars, procVars, loopVars, genCount,
                   cycle_secs, start_ts, left, bgOpen, bgPos, finPos,
                   phase, prevPhase, prevLeft, nth>>

\* (mutant) the exhausted sting source is seeked back, as the background is
FinReadEofSeek ==
    /\ Pulling
    /\ gpc = "fin_read"
    /\ finPos >= finFrames
    /\ finPos' = 0
    /\ gpc' = IF finFrames = 0 THEN "open_bg" ELSE "fin_read"
    /\ finOpen' = (finFrames # 0)
    /\ UNCHANGED <<envVars, compVars, now, mainVars, procVars, loopVars, genCount,
                   cycle_secs, start_ts, left, bgOpen, bgPos,
                   phase, prevPhase, prevLeft, nth>>

\* lines 119-121, 124: the sting source is exhausted; the cycle restarts
FinReadEof ==
    /\ Pulling
    /\ gpc = "fin_read"
    /\ finPos >= finFrames
    /\ finOpen' = FALSE
    /\ gpc' = "open_bg"
    /\ UNCHANGED <<envVars, compVars, now, mainVars, procVars, loopVars, genCount,
                   cycle_secs, start_ts, left, bgOpen, bgPos, finPos,
                   phase, prevPhase, prevLeft, nth>>

\* line 123 -> 118: resumed after a sting frame
FinResume ==
    /\ Pulling
    /\ gpc = "fin_yield"
    /\ gpc' = "fin_read"
    /\ UNCHANGED <<envVars, compVars, now, mainVars, procVars, loopVars, genCount,
                   cycle_secs, start_ts, left, bgOpen, finOpen, bgPos, finPos,
                   phase, prevPhase, prevLeft, nth>>

\* every step the generator takes on its own
GenStep ==
    \/ OpenBackground
    \/ BgReadFrame
    \/ BgReadEof
    \/ BgSeek
    \/ BgResume
    \/ OpenFinal
    \/ FinReadFrame
    \/ FinReadEof
    \/ FinResume

----------------------------------------------------------------------------
\* The sequencer on its own: one generator, resumed again and again

ShortCycleSecs == 1    \* a cycle_secs below the threshold of line 111

\* the values of the parameter cycle_secs: the configured one, the threshold
\* itself and one below it
CycleSecsSet == {COUNTDOWN_SECONDS, BreakAt, ShortCycleSecs}

InitSeq ==
    /\ mode = "preview"
    /\ bgExists = TRUE
    /\ finExists = TRUE
    /\ bgFrames \in 0..MaxBgFrames
    /\ finFrames \in 0..MaxFinFrames
    /\ now = 0
    /\ pc = "sequencer"
    /\ exitStatus = "running"
    /\ errors = <<>>
    /\ stopRequested = FALSE
    /\ procs = <<>>
    /\ ffmpeg = 0
    /\ buffered = 0
    /\ written = <<>>
    /\ frame = NoFrame
    /\ produced = <<>>
    /\ events = <<>>
    /\ sleepStart = NoTime
    /\ genCount = 1
    /\ gpc = "created"
    /\ cycle_secs \in CycleSecsSet
    /\ start_ts = NoTime
    /\ left = 0
    /\ bgOpen = FALSE
    /\ finOpen = FALSE
    /\ bgPos = 0
    /\ finPos = 0
    /\ phase = "none"
    /\ prevPhase = "none"
    /\ prevLeft = 0
    /\ nth = 0
    /\ NoComposition

NextSeq ==
    \/ GenStep
    \/ Tick(MaxNow, 1)

SpecSeq == InitSeq /\ [][NextSeq]_vars

\* the generator is scheduled whenever it can take a step
FairSpecSeq == SpecSeq /\ WF_vars(GenStep)

----------------------------------------------------------------------------
\* resize_letterbox (lines 57-76)

MaxDim == 4       \* widths and heights of frames and targets are 1..MaxDim

\* cv2.resize and cv2.copyMakeBorder raise cv2.error for an empty size or a
\* negative border
LetterboxRaises(new_w, new_h, pad) == new_w < 1 \/ new_h < 1 \/ pad < 0

\* the call resize_letterbox(frame, W, H) with frame.shape[:2] = (h, w).
\* w / h > W / H is compared in floating point; for the sizes of the model
\* both quotients are rounded correctly, so it is w * H > W * h, and
\* int(h * W / w) is the integer quotient.  cv2.resize returns new_w x new_h,
\* cv2.copyMakeBorder adds its four borders to that.
Letterbox(w, h, W, H) ==
    LET fitWidth == w * H > W * h
        new_w    == IF fitWidth THEN W ELSE (w * H) \div h
        new_h    == IF fitWidth THEN (h * W) \div w ELSE H
        pad      == IF fitWidth THEN (H - new_h) \div 2 ELSE (W - new_w) \div 2
        top      == IF fitWidth THEN pad ELSE 0
        bottom   == IF fitWidth THEN H - new_h - pad ELSE 0
        lft      == IF fitWidth THEN 0 ELSE pad
        rgt      == IF fitWidth THEN 0 ELSE W - new_w - pad
        raises   == LetterboxRaises(new_w, new_h, pad)
    IN  [called |-> TRUE, raised |-> raises,
         new_w |-> new_w, new_h |-> new_h,
         top |-> top, bottom |-> bottom, left |-> lft, right |-> rgt,
         width  |-> IF raises THEN 0 ELSE lft + new_w + rgt,
         height |-> IF raises THEN 0 ELSE top + new_h + bottom]

ResizeLetterbox ==
    /\ pc = "letterbox"
    /\ boxed' = Letterbox(src_w, src_h, target_w, target_h)
    /\ pc' = "letterboxed"
    /\ UNCHANGED <<envVars, now, exitStatus, errors, stopRequested, procVars,
                   loopVars, genVars, src_w, src_h, target_w, target_h,
                   secs_left, drawn>>

\* every state of the program outside the two calls under study
Idle ==
    /\ mode = "preview"
    /\ bgExists = TRUE
    /\ finExists = TRUE
    /\ bgFrames = 0
    /\ finFrames = 0
    /\ now = 0
    /\ exitStatus = "running"
    /\ errors = <<>>
    /\ stopRequested = FALSE
    /\ procs = <<>>
    /\ ffmpeg = 0
    /\ buffered = 0
    /\ written = <<>>
    /\ frame = NoFrame
    /\ produced = <<>>
    /\ events = <<>>
    /\ sleepStart = NoTime
    /\ genCount = 0
    /\ gpc = "none"
    /\ cycle_secs = 0
    /\ start_ts = NoTime
    /\ left = 0
    /\ bgOpen = FALSE
    /\ finOpen = FALSE
    /\ bgPos = 0
    /\ finPos = 0
    /\ phase = "none"
    /\ prevPhase = "none"
    /\ prevLeft = 0
    /\ nth = 0

InitLetterbox ==
    /\ Idle
    /\ pc = "letterbox"
    /\ src_w \in 1..MaxDim
    /\ src_h \in 1..MaxDim
    /\ target_w \in 1..MaxDim
    /\ target_h \in 1..MaxDim
    /\ boxed = NotCalled
    /\ secs_left = 0
    /\ drawn = NotCalled

NextLetterbox == ResizeLetterbox

SpecLetterbox == InitLetterbox /\ [][NextLetterbox]_vars

----------------------------------------------------------------------------
\* draw_centered_countdown (lines 33-54)

MaxSecs    == 6001    \* secs_left is at most MaxSecs ...
MaxNegSecs == 601     \* ... and at least -MaxNegSecs

SecsPerMin == 60
FieldWidth == 2

\* a string is the sequence of its characters
DigitChars == <<"0", "1", "2", "3", "4", "5", "6", "7", "8", "9">>

\* str(n) for n >= 0
RECURSIVE Decimal(_)
Decimal(n) ==
    IF n < 10 THEN <<DigitChars[n + 1]>>
    ELSE Decimal(n \div 10) \o <<DigitChars[(n % 10) + 1]>>

\* s filled with "0" on the left up to `width` characters
RECURSIVE ZeroFill(_, _)
ZeroFill(s, width) ==
    IF Len(s) >= width THEN s ELSE ZeroFill(<<"0">> \o s, width)

\* format(n, "02"): the zeros go between the sign and the digits, and the
\* sign counts in the width
Format02(n) ==
    IF n >= 0 THEN ZeroFill(Decimal(n), FieldWidth)
    ELSE <<"-">> \o ZeroFill(Decimal(0 - n), FieldWidth - 1)

\* (mutant) the minutes wrap at one hour
CountdownTextWrapped(secs) ==
    Format02((secs \div SecsPerMin) % SecsPerMin) \o <<":">> \o
    Format02(secs % SecsPerMin)

\* lines 36-37: divmod rounds towards minus infinity, as \div and % do
CountdownText(secs) ==
    Format02(secs \div SecsPerMin) \o <<":">> \o Format02(secs % SecsPerMin)

\* lines 35-54: the text is measured, a box and the text are drawn in place
\* (cv2 clips what falls outside the frame) and the frame is returned
DrawCenteredCountdown ==
    /\ pc = "overlay"
    /\ drawn' = [called |-> TRUE, raised |-> FALSE,
                 text |-> CountdownText(secs_left)]
    /\ pc' = "overlaid"
    /\ UNCHANGED <<envVars, now, exitStatus, errors, stopRequested, procVars,
                   loopVars, genVars, src_w, src_h, target_w, target_h, boxed,
                   secs_left>>

InitOverlay ==
    /\ Idle
    /\ pc = "overlay"
    /\ src_w = 0
    /\ src_h = 0
    /\ target_w = 0
    /\ target_h = 0
    /\ boxed = NotCalled
    /\ secs_left \in (0 - MaxNegSecs)..MaxSecs
    /\ drawn = NotCalled

NextOverlay == DrawCenteredCountdown

SpecOverlay == InitOverlay /\ [][NextOverlay]_vars

----------------------------------------------------------------------------
\* The encoder subprocess and its stdin pipe (the environment of run_stream)

\* frame.tobytes() of a RESOLUTION frame in bgr24
FrameBytes == RESOLUTION_W * RESOLUTION_H * BytesPerPixel

\* BufferedWriter.write: the data is copied into the buffer when it fits in
\* the free space; otherwise the buffer is flushed to the pipe first
FitsInBuffer == (buffered + 1) * FrameBytes <= BUFSIZE

NewProc == [alive |-> TRUE, reading |-> TRUE, stdinOpen |-> TRUE,
            termRequested |-> FALSE, spawnedAt |-> now]

Sessions == 1..Len(procs)

\* the subprocess closes the read end of its stdin (it is shutting down)
ProcCloseStdin(i) ==
    /\ pc # "exited"
    /\ procs[i].reading
    /\ procs' = [procs EXCEPT ![i].reading = FALSE]
    /\ UNCHANGED <<envVars, compVars, now, mainVars, ffmpeg, buffered, written,
                   loopVars, genVars>>

\* the subprocess exits, of its own accord or after SIGTERM, whenever it does
ProcExit(i) ==
    /\ pc # "exited"
    /\ procs[i].alive
    /\ procs' = [procs EXCEPT ![i].alive = FALSE, ![i].reading = FALSE]
    /\ UNCHANGED <<envVars, compVars, now, mainVars, ffmpeg, buffered, written,
                   loopVars, genVars>>

----------------------------------------------------------------------------
\* Entry point

\* the paths _verify_paths finds missing, in the order of `required`
Missing ==
    (IF bgExists THEN <<>> ELSE <<"BACKGROUND_VIDEO">>) \o
    (IF finExists THEN <<>> ELSE <<"FINAL_VIDEO">>)

\* the generator object is dropped: its frame and both captures are freed
DropGenerator ==
    /\ gpc' = IF gpc = "none" THEN "none" ELSE "done"
    /\ cycle_secs' = 0
    /\ start_ts' = NoTime
    /\ left' = 0
    /\ bgOpen' = FALSE
    /\ finOpen' = FALSE
    /\ bgPos' = 0
    /\ finPos' = 0
    /\ phase' = "none"
    /\ prevPhase' = "none"
    /\ prevLeft' = 0
    /\ nth' = 0
    /\ UNCHANGED genCount

\* the interpreter exits: every object of the program is gone; what stays
\* is what the program did to its environment
Exit(status) ==
    /\ pc' = "exited"
    /\ exitStatus' = status
    /\ ffmpeg' = 0
    /\ buffered' = 0
    /\ frame' = NoFrame
    /\ produced' = <<>>
    /\ events' = <<>>
    /\ sleepStart' = NoTime
    /\ DropGenerator

\* (mutant) the missing files are reported but the program goes on
VerifyPathsNoExit ==
    /\ pc = "verify"
    /\ errors' = Missing
    /\ pc' = "dispatch"
    /\ UNCHANGED <<envVars, compVars, now, exitStatus, stopRequested, procVars, loopVars,
                   genVars>>

\* the status the interpreter exits with: 0 after a return from run_stream
\* or run_preview, nonzero after sys.exit(1) or an uncaught exception
ExitCode(status) == IF status \in {"stopped", "quit"} THEN 0 ELSE 1

\* lines 23-30, 220
VerifyPaths ==
    /\ pc = "verify"
    /\ IF Missing # <<>>
       THEN /\ errors' = Missing
            /\ Exit("missing_assets")
       ELSE /\ pc' = "dispatch"
            /\ UNCHANGED <<errors, exitStatus, ffmpeg, buffered, loopVars,
                           genVars>>
    /\ UNCHANGED <<envVars, compVars, now, stopRequested, procs, written>>

\* a call of countdown_and_final_frames(cfg.COUNTDOWN_SECONDS): a new
\* generator object, its body not yet started
NewGenerator ==
    /\ genCount' = genCount + 1
    /\ gpc' = "created"
    /\ cycle_secs' = COUNTDOWN_SECONDS
    /\ start_ts' = NoTime
    /\ left' = 0
    /\ bgOpen' = FALSE
    /\ finOpen' = FALSE
    /\ bgPos' = 0
    /\ finPos' = 0
    /\ phase' = "none"
    /\ prevPhase' = "none"
    /\ prevLeft' = 0
    /\ nth' = 0

\* line 226: the mode for which the entry point calls run_stream
RunsStream(m) == m = "preview"

\* lines 222-230; run_preview's lines 205-209 create its generator
Dispatch ==
    /\ pc = "dispatch"
    /\ IF RunsStream(mode)
       THEN /\ pc' = "spawn"
            /\ UNCHANGED genVars
       ELSE /\ pc' = "preview_pull"
            /\ NewGenerator
    /\ UNCHANGED <<envVars, compVars, now, exitStatus, errors, stopRequested, procVars,
                   loopVars>>

----------------------------------------------------------------------------
\* run_preview

\* lines 210-213: show the frame, poll the keyboard
PreviewShow ==
    /\ pc = "preview_show"
    /\ \E q \in BOOLEAN :
         IF q
         THEN Exit("quit")
         ELSE /\ pc' = "preview_pull"
              /\ frame' = NoFrame
              /\ UNCHANGED <<exitStatus, ffmpeg, buffered, produced, events,
                             sleepStart, genVars>>
    /\ UNCHANGED <<envVars, compVars, now, errors, stopRequested, procs, written>>

----------------------------------------------------------------------------
\* run_stream

\* line 174: _start_ffmpeg() returns a new subprocess
Spawn ==
    /\ pc = "spawn"
    /\ Len(procs) < MaxSpawns
    /\ procs' = Append(procs, NewProc)
    /\ ffmpeg' = Len(procs) + 1
    /\ buffered' = 0
    /\ written' = Append(written, <<>>)
    /\ events' = Append(events, "spawn")
    /\ pc' = "newgen"
    /\ UNCHANGED <<envVars, compVars, now, exitStatus, errors, stopRequested, frame,
                   produced, sleepStart, genVars>>

\* line 174: sp.Popen raises (no ffmpeg executable, fork fails); the call is
\* outside every try block
SpawnFails ==
    /\ pc = "spawn"
    /\ Exit("error")
    /\ UNCHANGED <<envVars, compVars, now, errors, stopRequested, procs, written>>

\* line 178: the for statement creates the generator
StreamNewSequencer ==
    /\ pc = "newgen"
    /\ NewGenerator
    /\ produced' = <<>>
    /\ events' = Append(events, "sequencer")
    /\ pc' = "pull"
    /\ UNCHANGED <<envVars, compVars, now, exitStatus, errors, stopRequested, procVars,
                   frame, sleepStart>>

\* the except Exception clause is entered (lines 188-190); the generator is
\* abandoned
EnterFailure(cause) ==
    /\ pc' = "fail_close"
    /\ events' = <<cause>>
    /\ frame' = NoFrame
    /\ produced' = <<>>
    /\ DropGenerator

\* (mutant) a frame that arrives when the buffer is full is dropped
StreamWriteLossy ==
    /\ pc = "write"
    /\ IF FitsInBuffer \/ procs[ffmpeg].reading
       THEN /\ buffered' = IF FitsInBuffer THEN buffered + 1 ELSE 0
            /\ written' = IF FitsInBuffer
                           THEN [written EXCEPT ![ffmpeg] = Append(@, FrameId(frame))]
                           ELSE written
            /\ frame' = NoFrame
            /\ pc' = "pull"
            /\ UNCHANGED <<events, produced, genVars>>
       ELSE /\ EnterFailure("write_failed")
            /\ UNCHANGED <<buffered, written>>
    /\ UNCHANGED <<envVars, compVars, now, exitStatus, errors, stopRequested, procs,
                   ffmpeg, sleepStart>>

\* lines 180-182: ffmpeg.stdin.write(frame.tobytes())
StreamWrite ==
    /\ pc = "write"
    /\ IF FitsInBuffer \/ procs[ffmpeg].reading
       THEN /\ buffered' = IF FitsInBuffer THEN buffered + 1 ELSE 1
            /\ written' = [written EXCEPT ![ffmpeg] = Append(@, FrameId(frame))]
            /\ frame' = NoFrame
            /\ pc' = "pull"
            /\ UNCHANGED <<events, genVars>>
       ELSE /\ EnterFailure("write_failed")
            /\ UNCHANGED <<buffered, written>>
    /\ IF FitsInBuffer \/ procs[ffmpeg].reading
       THEN UNCHANGED produced ELSE TRUE
    /\ UNCHANGED <<envVars, compVars, now, exitStatus, errors, stopRequested, procs,
                   ffmpeg, sleepStart>>

\* decoding, letterboxing or drawing raises inside the generator
GenError ==
    /\ pc \in {"pull", "preview_pull"}
    /\ gpc \in {"bg_read", "fin_read"}
    /\ IF pc = "pull"
       THEN /\ EnterFailure("frame_failed")
            /\ UNCHANGED <<exitStatus, ffmpeg, buffered, sleepStart>>
       ELSE Exit("error")
    /\ UNCHANGED <<envVars, compVars, now, errors, stopRequested, procs, written>>

\* BufferedWriter.close(): flush, then close the descriptor whether or not
\* the flush raised; the flush raises when data is buffered and nobody reads
CloseRaises == buffered > 0 /\ ~procs[ffmpeg].reading

\* (mutant) what close raises leaves the handler
FailCloseRaises ==
    /\ pc = "fail_close"
    /\ procs' = [procs EXCEPT ![ffmpeg].stdinOpen = FALSE]
    /\ IF CloseRaises
       THEN /\ Exit("error")
            /\ UNCHANGED written
       ELSE /\ buffered' = 0
            /\ events' = Append(events, "close")
            /\ pc' = "fail_term"
            /\ UNCHANGED <<exitStatus, ffmpeg, written, frame, produced,
                           sleepStart, genVars>>
    /\ UNCHANGED <<envVars, compVars, now, errors, stopRequested>>

\* lines 191-194: close the pipe, swallow what it raises
FailClose ==
    /\ pc = "fail_close"
    /\ procs' = [procs EXCEPT ![ffmpeg].stdinOpen = FALSE]
    /\ buffered' = 0
    /\ events' = Append(events, "close")
    /\ pc' = "fail_term"
    /\ UNCHANGED <<envVars, compVars, now, exitStatus, errors, stopRequested, ffmpeg,
                   written, frame, produced, sleepStart, genVars>>

\* line 195: ffmpeg.terminate(); time.sleep begins
FailTerminate ==
    /\ pc = "fail_term"
    /\ procs' = [procs EXCEPT ![ffmpeg].termRequested = TRUE]
    /\ events' = Append(events, "terminate")
    /\ sleepStart' = now
    /\ pc' = "fail_sleep"
    /\ UNCHANGED <<envVars, compVars, now, exitStatus, errors, stopRequested, ffmpeg,
                   buffered, written, frame, produced, genVars>>

\* (mutant) the sleep returns at once
SleptAtOnce == TRUE

\* time.sleep(retry_delay) has returned
Slept == now - sleepStart >= retry_delay * TicksPerSec

\* lines 196-197: the sleep ends, the loop continues
FailSleep ==
    /\ pc = "fail_sleep"
    /\ Slept
    /\ events' = Append(events, "backoff")
    /\ pc' = "spawn"
    /\ UNCHANGED <<envVars, compVars, now, exitStatus, errors, stopRequested, procVars,
                   frame, produced, sleepStart, genVars>>

\* lines 184-185: close the pipe; what close raises leaves run_stream
StopClose ==
    /\ pc = "stop_close"
    /\ procs' = [procs EXCEPT ![ffmpeg].stdinOpen = FALSE]
    /\ IF CloseRaises
       THEN Exit("error")
       ELSE /\ pc' = "stop_term"
            /\ buffered' = 0
            /\ UNCHANGED <<exitStatus, ffmpeg, loopVars, genVars>>
    /\ UNCHANGED <<envVars, compVars, now, errors, stopRequested, written>>

\* (mutant) the stop handler ends in continue instead of break
StopTerminateContinue ==
    /\ pc = "stop_term"
    /\ procs' = [procs EXCEPT ![ffmpeg].termRequested = TRUE]
    /\ pc' = "spawn"
    /\ UNCHANGED <<envVars, compVars, now, exitStatus, errors, stopRequested, ffmpeg,
                   buffered, written, loopVars, genVars>>

\* lines 186-187: ffmpeg.terminate(); break
StopTerminate ==
    /\ pc = "stop_term"
    /\ procs' = [procs EXCEPT ![ffmpeg].termRequested = TRUE]
    /\ Exit("stopped")
    /\ UNCHANGED <<envVars, compVars, now, errors, stopRequested, written>>

\* the positions inside the try block of lines 177-182
InTry == pc \in {"newgen", "pull", "write"}

\* KeyboardInterrupt raised in the main thread, wherever it is
Interrupt ==
    /\ pc # "exited"
    /\ stopRequested' = TRUE
    /\ IF InTry
       THEN \* caught at line 183
            /\ pc' = "stop_close"
            /\ frame' = NoFrame
            /\ produced' = <<>>
            /\ DropGenerator
            /\ UNCHANGED <<exitStatus, procs, written, ffmpeg, buffered,
                           events, sleepStart>>
       ELSE \* no handler: the exception leaves the program
            /\ Exit("interrupted")
            /\ IF pc = "spawn"
               THEN \* Popen may already have started the subprocess
                    \E started \in BOOLEAN :
                       IF started /\ Len(procs) < MaxSpawns
                       THEN /\ procs' = Append(procs, NewProc)
                            /\ written' = Append(written, <<>>)
                       ELSE UNCHANGED <<procs, written>>
               ELSE UNCHANGED <<procs, written>>
    /\ UNCHANGED <<envVars, compVars, now, errors>>

----------------------------------------------------------------------------
\* The whole program

Init ==
    /\ mode \in {"preview", "stream"}
    /\ bgExists \in BOOLEAN
    /\ finExists \in BOOLEAN
    /\ bgFrames \in (IF bgExists THEN {0, MaxBgFrames} ELSE {0})
    /\ finFrames \in (IF finExists THEN {0, MaxFinFrames} ELSE {0})
    /\ now = 0
    /\ pc = "verify"
    /\ exitStatus = "running"
    /\ errors = <<>>
    /\ stopRequested = FALSE
    /\ procs = <<>>
    /\ ffmpeg = 0
    /\ buffered = 0
    /\ written = <<>>
    /\ frame = NoFrame
    /\ produced = <<>>
    /\ events = <<>>
    /\ sleepStart = NoTime
    /\ genCount = 0
    /\ gpc = "none"
    /\ cycle_secs = 0
    /\ start_ts = NoTime
    /\ left = 0
    /\ bgOpen = FALSE
    /\ finOpen = FALSE
    /\ bgPos = 0
    /\ finPos = 0
    /\ phase = "none"
    /\ prevPhase = "none"
    /\ prevLeft = 0
    /\ nth = 0
    /\ NoComposition

Next ==
    \/ VerifyPaths
    \/ Dispatch
    \/ PreviewShow
    \/ Spawn
    \/ SpawnFails
    \/ StreamNewSequencer
    \/ StreamWrite
    \/ GenError
    \/ FailClose
    \/ FailTerminate
    \/ FailSleep
    \/ StopClose
    \/ StopTerminate
    \/ Interrupt
    \/ GenStep
    \/ Tick(MaxNowStream, StreamTick)
    \/ \E i \in Sessions : ProcCloseStdin(i)
    \/ \E i \in Sessions : ProcExit(i)

Spec == Init /\ [][Next]_vars

----------------------------------------------------------------------------
\* Properties

IsPrefix(a, b) == Len(a) <= Len(b) /\ a = SubSeq(b, 1, Len(a))

Backoff == retry_delay * TicksPerSec

\* what run_stream does from a failed write to the next session
RecoveryOrder ==
    <<"write_failed", "close", "terminate", "backoff", "spawn", "sequencer">>

\* C1: after a failed pipe write run_stream closes the old pipe, requests
\* termination of the old subprocess, waits the backoff delay, spawns a new
\* subprocess and creates a new generator, in this order; the first frame
\* handed to the new subprocess is the first frame of a fresh Countdown
\* phase: yielded by the new generator as its first frame, decoded from
\* position zero, with start_ts sampled after the backoff.
C1_RecoveryRestartsCountdown ==
    /\ (events # <<>> /\ events[1] = "write_failed")
          => /\ IsPrefix(events, RecoveryOrder)
             /\ (pc = "spawn" => now - sleepStart >= Backoff)
             /\ (pc \in {"pull", "write"} => events = RecoveryOrder)
    /\ (pc = "write" /\ written[ffmpeg] = <<>>)
          => /\ frame.phase = "Countdown"
             /\ frame.pos = 0
             /\ frame.gen = ffmpeg
             /\ frame.n = 1
             /\ (ffmpeg > 1 => frame.start >= sleepStart + Backoff)

\* a second session receives its first frame after a write to the first
\* session failed with frames already written
C1_Witness ==
    /\ pc = "write"
    /\ ffmpeg = 2
    /\ written[2] = <<>>
    /\ Len(written[1]) > 0
    /\ events = RecoveryOrder

\* C2: at most one session is active: of the subprocesses spawned, at most
\* one is still running or has its input pipe open.
C2_OneActiveSession ==
    Cardinality({i \in Sessions : procs[i].alive \/ procs[i].stdinOpen}) <= 1

\* C3: when the program has exited after an interrupt, wherever the interrupt
\* was delivered, every subprocess it spawned has been asked to terminate or
\* has exited.
C3_InterruptTearsDown ==
    (pc = "exited" /\ stopRequested)
        => \A i \in Sessions : procs[i].termRequested \/ ~procs[i].alive

StopStates == {"stop_close", "stop_term", "exited"}

\* C4: once a stop request has been received, the program is in the stop
\* handler or has exited, and from then on no subprocess is spawned, no frame
\* is written and the retry path is not entered.
C4_StopIsFinal ==
    [][stopRequested' =>
          /\ pc' \in StopStates
          /\ stopRequested =>
                /\ Len(procs') = Len(procs)
                /\ written' = written
                /\ events' \in {events, <<>>}]_vars

\* the stop handler has run to its end after frames were written
C4_Witness ==
    /\ stopRequested
    /\ exitStatus = "stopped"
    /\ Len(procs) = 1
    /\ Len(written[1]) > 0

\* C5: the supervisor loop ends for no reason other than an external stop,
\* in particular not because a relaunch fails.
C5_OnlyStopEndsLoop ==
    (pc = "exited" /\ Len(procs) > 0) => stopRequested

\* the ids of the first k frames generator g yields
FirstIds(g, k) == [j \in 1..k |-> [gen |-> g, n |-> j]]

\* C6: the frames written to a session's pipe are a prefix of the frames the
\* session's generator produced, in order, none twice, none skipped, none
\* sent to another session; at most the last produced frame is unwritten.
C6_WrittenIsPrefixOfProduced ==
    \A i \in Sessions :
       /\ written[i] = FirstIds(i, Len(written[i]))
       /\ (i = ffmpeg /\ pc \in {"pull", "write"})
             => /\ produced = FirstIds(i, Len(produced))
                /\ IsPrefix(written[i], produced)
                /\ Len(produced) - Len(written[i]) = (IF pc = "write" THEN 1 ELSE 0)

\* two sessions have each received frames, the first across a buffer flush
C6_Witness ==
    /\ Len(procs) = 2
    /\ Len(written[1]) = MaxFrames
    /\ Len(written[2]) > 0

MissingPaths ==
    {p \in {"BACKGROUND_VIDEO", "FINAL_VIDEO"} :
        \/ p = "BACKGROUND_VIDEO" /\ ~bgExists
        \/ p = "FINAL_VIDEO" /\ ~finExists}

\* C7: with an asset missing the program spawns no subprocess, creates no
\* generator and produces no frame in either mode; unless interrupted first
\* it exits with nonzero status having reported each missing path once.
C7_MissingAssetStopsStartup ==
    MissingPaths # {}
        => /\ procs = <<>>
           /\ genCount = 0
           /\ gpc = "none"
           /\ frame = NoFrame
           /\ pc \in {"verify", "exited"}
           /\ pc = "exited"
                 => /\ ExitCode(exitStatus) # 0
                    /\ ~stopRequested
                          => /\ exitStatus = "missing_assets"
                             /\ {errors[k] : k \in DOMAIN errors} = MissingPaths
                             /\ Len(errors) = Cardinality(MissingPaths)

\* both assets are missing and the program has exited with two reports
C7_Witness ==
    /\ pc = "exited"
    /\ exitStatus = "missing_assets"
    /\ Len(errors) = 2
    /\ mode = "stream"

\* C8 (as stated): with cycle_secs = 30 every Countdown frame shows a
\* remaining time that starts at 30, never increases and is never below 10.
C8_CountdownFrom30To10 ==
    (cycle_secs = COUNTDOWN_SECONDS /\ gpc = "bg_yield")
        => /\ left >= BreakAt
           /\ left <= prevLeft
           /\ (nth = 1 => left = COUNTDOWN_SECONDS)

\* C8 (amended): with cycle_secs = 30 the remaining time of a Countdown
\* frame is at most 30 and never above that of the frame before it; every
\* frame before the last of the phase shows more than 10; the Sting phase
\* is entered only after a frame that shows 10 or less.
C8_CountdownDownToBreak ==
    cycle_secs = COUNTDOWN_SECONDS
        => /\ gpc = "bg_yield"
                 => /\ left <= COUNTDOWN_SECONDS
                    /\ left <= prevLeft
                    /\ (nth >= 2 => prevLeft > BreakAt)
           /\ (gpc \in {"bg_read", "bg_seek"} /\ nth >= 1) => left > BreakAt
           /\ gpc \in {"open_fin", "fin_read", "fin_yield"} => left <= BreakAt

\* the last frame of a Countdown phase shows 9 after a frame that showed 11
C8_Witness ==
    /\ cycle_secs = COUNTDOWN_SECONDS
    /\ gpc = "bg_yield"
    /\ left = BreakAt - 1
    /\ prevLeft = BreakAt + 1
    /\ nth = 2

Yielded == {"bg_yield", "fin_yield"}

\* C9: the generator never finishes and every request for the next frame
\* eventually returns a frame, for every background and sting source.
C9_EveryRequestReturnsAFrame ==
    /\ [](gpc # "done")
    /\ (gpc \notin Yielded) ~> (gpc \in Yielded)

\* C10: a generator starts in Countdown; Countdown is entered first or after
\* Sting, Sting only after Countdown; the frames yielded carry the phase.
C10_PhasesAlternate ==
    /\ phase = "none" => (prevPhase = "none" /\ gpc = "created")
    /\ phase = "Countdown" => prevPhase \in {"none", "Sting"}
    /\ phase = "Sting" => prevPhase = "Countdown"
    /\ gpc = "bg_yield" => (phase = "Countdown" /\ frame.phase = "Countdown")
    /\ gpc = "fin_yield" => (phase = "Sting" /\ frame.phase = "Sting")

\* a second Countdown phase has begun after a Sting phase that yielded a frame
C10_Witness ==
    /\ phase = "Countdown"
    /\ prevPhase = "Sting"
    /\ frame.phase = "Sting"

\* the aspect ratio of the source is that of the target
SameAspect == src_w * target_h = target_w * src_h

\* C11: for every source size and target size with positive dimensions
\* resize_letterbox returns a frame of exactly the target size: the scaled
\* size plus the two pads makes the target on each axis, the scaled size
\* exceeds the target on neither axis and equals it on one, and with equal
\* aspect ratios all pads are 0.
C11_LetterboxFillsTarget ==
    boxed.called
        => /\ ~boxed.raised
           /\ boxed.width = target_w
           /\ boxed.height = target_h
           /\ boxed.left + boxed.new_w + boxed.right = target_w
           /\ boxed.top + boxed.new_h + boxed.bottom = target_h
           /\ boxed.new_w <= target_w
           /\ boxed.new_h <= target_h
           /\ (boxed.new_w = target_w \/ boxed.new_h = target_h)
           /\ (boxed.new_w = target_w => boxed.left = 0 /\ boxed.right = 0)
           /\ (boxed.new_h = target_h => boxed.top = 0 /\ boxed.bottom = 0)
           /\ SameAspect => /\ boxed.top = 0 /\ boxed.bottom = 0
                            /\ boxed.left = 0 /\ boxed.right = 0

\* reading a text back: its fields on either side of the colon, and the
\* number a field of digits writes
IsDigits(s) == \A i \in DOMAIN s : \E d \in DOMAIN DigitChars : DigitChars[d] = s[i]

DigitValue(c) == (CHOOSE d \in DOMAIN DigitChars : DigitChars[d] = c) - 1

RECURSIVE NumberOf(_)
NumberOf(s) ==
    IF s = <<>> THEN 0
    ELSE NumberOf(SubSeq(s, 1, Len(s) - 1)) * 10 + DigitValue(s[Len(s)])

ColonAt(t) == CHOOSE i \in DOMAIN t : t[i] = ":"
MinutesField(t) == SubSeq(t, 1, ColonAt(t) - 1)
SecondsField(t) == SubSeq(t, ColonAt(t) + 1, Len(t))

\* a field of digits with an optional minus sign in front
Unsigned(s) == IF s # <<>> /\ s[1] = "-" THEN Tail(s) ELSE s
SignedNumberOf(s) ==
    IF s # <<>> /\ s[1] = "-" THEN 0 - NumberOf(Tail(s)) ELSE NumberOf(s)

\* C12 (as stated): for every integer secs_left the text is MM:SS, MM the
\* quotient and SS the remainder of secs_left by 60, each written with at
\* least two digits, the minutes not wrapped; no error is raised.
C12_TextIsTwoDigitFields ==
    drawn.called
        => /\ ~drawn.raised
           /\ Cardinality({i \in DOMAIN drawn.text : drawn.text[i] = ":"}) = 1
           /\ IsDigits(MinutesField(drawn.text))
           /\ Len(MinutesField(drawn.text)) >= FieldWidth
           /\ NumberOf(MinutesField(drawn.text)) = secs_left \div SecsPerMin
           /\ IsDigits(SecondsField(drawn.text))
           /\ Len(SecondsField(drawn.text)) = FieldWidth
           /\ NumberOf(SecondsField(drawn.text)) = secs_left % SecsPerMin

\* C12 (amended): the text is MM:SS with SS the remainder of secs_left by 60
\* in two digits and MM the quotient rounded down, not wrapped: in at least
\* two digits for secs_left >= 0, and for secs_left < 0 a minus sign
\* followed by the digits of the (negative) quotient with no zero in front;
\* no error is raised.
C12_TextIsPaddedQuotientAndRemainder ==
    drawn.called
        => /\ ~drawn.raised
           /\ Cardinality({i \in DOMAIN drawn.text : drawn.text[i] = ":"}) = 1
           /\ IsDigits(Unsigned(MinutesField(drawn.text)))
           /\ SignedNumberOf(MinutesField(drawn.text)) = secs_left \div SecsPerMin
           /\ IF secs_left >= 0
              THEN /\ IsDigits(MinutesField(drawn.text))
                   /\ Len(MinutesField(drawn.text)) >= FieldWidth
              ELSE /\ MinutesField(drawn.text)[1] = "-"
                   /\ Unsigned(MinutesField(drawn.text))[1] # "0"
           /\ IsDigits(SecondsField(drawn.text))
           /\ Len(SecondsField(drawn.text)) = FieldWidth
           /\ NumberOf(SecondsField(drawn.text)) = secs_left % SecsPerMin

\* five seconds past the end: the text is -1:55
C12_Witness ==
    /\ drawn.called
    /\ ~drawn.raised
    /\ secs_left = 0 - 5
    /\ drawn.text = <<"-", "1", ":", "5", "5">>

\* C13: every Countdown frame carries cycle_secs minus the whole seconds
\* that have passed since the start of its phase, sampled when the frame is
\* decoded; the phase goes on after a frame above 10 and ends right after
\* the first frame at 10 or below, which is therefore its only such frame
\* and its last; entering a Countdown phase samples a new start, so the
\* elapsed time restarts from 0.
C13_RemainingPerFrame ==
    /\ [](gpc = "bg_yield"
             => /\ phase = "Countdown"
                /\ frame.left = left
                /\ frame.start = start_ts
                /\ left <= cycle_secs
                /\ left >= cycle_secs - Elapsed
                /\ (nth >= 2 => prevLeft > BreakAt))
    /\ []((gpc \in {"bg_read", "bg_seek"} /\ nth >= 1) => left > BreakAt)
    /\ [](gpc = "open_fin" => (left <= BreakAt /\ nth >= 1))
    /\ [][(gpc' = "bg_yield" /\ gpc # "bg_yield")
             => left' = cycle_secs - ((now - start_ts) \div TicksPerSec)]_vars
    /\ [][(gpc = "bg_yield" /\ gpc' # "bg_yield")
             => gpc' = (IF left <= BreakAt THEN "open_fin" ELSE "bg_read")]_vars
    /\ [][(phase' = "Countdown" /\ phase # "Countdown")
             => (start_ts' = now' /\ Elapsed' = 0)]_vars

\* the first frame of the second Countdown phase shows cycle_secs again
C13_Witness ==
    /\ gpc = "bg_yield"
    /\ prevPhase = "Sting"
    /\ nth = 1
    /\ cycle_secs = COUNTDOWN_SECONDS
    /\ start_ts > 0
    /\ frame.left = COUNTDOWN_SECONDS

\* C14: in a Sting phase the frames are yielded in decode order from
\* position 0, one per frame of the sting source, without overlay; the
\* position only moves forward by one per yielded frame, and the phase is
\* left, for a Countdown phase, exactly when every frame of the source has
\* been yielded.
C14_StingPlayedOnce ==
    /\ [](gpc = "fin_yield"
             => /\ phase = "Sting"
                /\ frame.phase = "Sting"
                /\ ~frame.overlay
                /\ frame.pos = finPos - 1
                /\ finPos <= finFrames)
    /\ []((gpc = "fin_read" /\ nth = 0) => finPos = 0)
    /\ [](gpc = "open_bg" => (finPos = finFrames /\ ~finOpen))
    /\ [][finPos' # finPos
             => IF phase = "Sting"
                THEN /\ finPos' = finPos + 1
                     /\ gpc' = "fin_yield"
                     /\ frame'.pos = finPos
                ELSE /\ finPos' = 0
                     /\ phase' = "Sting"]_vars
    /\ [][(phase = "Sting" /\ phase' # "Sting")
             => (finPos = finFrames /\ phase' = "Countdown")]_vars

\* a sting source of MaxFinFrames frames has been played to its last frame
\* and the next cycle is about to start
C14_Witness ==
    /\ gpc = "open_bg"
    /\ finFrames = MaxFinFrames
    /\ frame.phase = "Sting"
    /\ frame.pos = MaxFinFrames - 1
    /\ nth = 2

\* C15: in a Countdown phase the exhaustion of the background source yields
\* no frame and leaves the phase, its start and the open source as they
\* are: the position is set back to zero and the next frame decoded is the
\* first frame of the source.
C15_BackgroundReplayed ==
    /\ [](gpc = "bg_seek" => (phase = "Countdown" /\ bgOpen /\ bgPos >= bgFrames))
    /\ [](gpc = "bg_yield" => (frame.pos = bgPos - 1 /\ frame.pos < bgFrames))
    /\ [][(gpc = "bg_read" /\ bgPos >= bgFrames /\ gpc' # gpc)
             => /\ gpc' = "bg_seek"
                /\ frame' = frame
                /\ phase' = phase
                /\ start_ts' = start_ts
                /\ bgOpen']_vars
    /\ [][(gpc = "bg_seek" /\ gpc' # gpc)
             => /\ gpc' = "bg_read"
                /\ bgPos' = 0
                /\ frame' = frame
                /\ phase' = phase
                /\ start_ts' = start_ts
                /\ bgOpen']_vars

\* a background source of one frame, replayed, gives the last frame of a
\* Countdown phase that counts down from cycle_secs = 30
C15_Witness ==
    /\ gpc = "bg_yield"
    /\ cycle_secs = COUNTDOWN_SECONDS
    /\ bgFrames = 1
    /\ nth = 2
    /\ frame.pos = 0
    /\ left <= BreakAt

\* C16: once the subprocess of the current session no longer reads its
\* stdin (it has exited or closed the pipe), a write of run_stream is not
\* accepted and run_stream does not go on to pull another frame.
C16_WriteErrorIsImmediate ==
    [][(pc = "write" /\ ~procs[ffmpeg].reading)
          => (written' = written /\ pc' # "pull")]_vars

\* C17: the generator never has both sources open; the background source is
\* open exactly while the Countdown loop runs, the sting source exactly
\* while the Sting loop runs, neither in between; a source is opened at
\* position 0 while the other one is closed.
C17_OneSourceOpen ==
    /\ [](~(bgOpen /\ finOpen))
    /\ [](gpc \in {"bg_read", "bg_seek", "bg_yield"} => bgOpen)
    /\ [](gpc \in {"fin_read", "fin_yield"} => finOpen)
    /\ [](gpc \in {"created", "open_fin", "open_bg"} => (~bgOpen /\ ~finOpen))
    /\ [][(bgOpen' /\ ~bgOpen) => (bgPos' = 0 /\ ~finOpen /\ start_ts' = now)]_vars
    /\ [][(finOpen' /\ ~finOpen) => (finPos' = 0 /\ ~bgOpen)]_vars

\* the second cycle has yielded its first frame, frame 0 of the background
\* source, after a first cycle that played both sources to their ends
C17_Witness ==
    /\ gpc = "bg_yield"
    /\ prevPhase = "Sting"
    /\ nth = 1
    /\ frame.pos = 0
    /\ bgFrames = MaxBgFrames
    /\ finFrames = MaxFinFrames
    /\ finPos = MaxFinFrames
    /\ cycle_secs = COUNTDOWN_SECONDS

FailureCauses == {"write_failed", "frame_failed"}

\* C18: whatever made the frame loop fail, a write or the production of a
\* frame, run_stream then closes the pipe, requests termination, backs off,
\* spawns and creates a new generator, in this order; the pipe is closed and
\* termination requested whether or not the close raised, and no error
\* other than a failed spawn ends the program.
C18_AnyErrorRecovers ==
    /\ (events # <<>> /\ events[1] \in FailureCauses)
          => /\ IsPrefix(Tail(events), Tail(RecoveryOrder))
             /\ (pc \in {"pull", "write"} => Tail(events) = Tail(RecoveryOrder))
    /\ pc \in {"fail_close", "fail_term", "fail_sleep"}
          => (events # <<>> /\ events[1] \in FailureCauses)
    /\ pc \in {"fail_term", "fail_sleep"} => ~procs[ffmpeg].stdinOpen
    /\ pc = "fail_sleep" => procs[ffmpeg].termRequested
    /\ (pc = "exited" /\ exitStatus = "error" /\ ~stopRequested /\ procs # <<>>)
          => /\ procs[Len(procs)].termRequested
             /\ ~procs[Len(procs)].stdinOpen

\* a second session is streaming after the generator of the first raised
C18_Witness ==
    /\ pc = "write"
    /\ ffmpeg = 2
    /\ events = <<"frame_failed">> \o Tail(RecoveryOrder)
    /\ procs[1].termRequested
    /\ ~procs[1].stdinOpen

\* C19: with cycle_secs <= 10 a Countdown phase yields one frame, showing
\* cycle_secs minus the seconds elapsed, and goes to the Sting phase right
\* after it; for every cycle_secs a Countdown phase is left only after it
\* has yielded a frame.
C19_ShortCycleOneFrame ==
    /\ (cycle_secs <= BreakAt /\ phase = "Countdown")
          => /\ nth <= 1
             /\ (nth = 1 => gpc \in {"bg_yield", "open_fin"})
             /\ (gpc = "bg_yield"
                    => /\ nth = 1
                       /\ frame.left = left
                       /\ left <= cycle_secs
                       /\ left >= cycle_secs - Elapsed)
    /\ gpc = "open_fin" => nth >= 1
    /\ phase = "Sting" => left <= BreakAt

\* with cycle_secs below 10 the one frame of a later Countdown phase has
\* been yielded with a negative remaining time
C19_Witness ==
    /\ cycle_secs = ShortCycleSecs
    /\ prevPhase = "Sting"
    /\ gpc = "open_fin"
    /\ nth = 1
    /\ frame.left < 0

StreamPositions ==
    {"spawn", "newgen", "pull", "write", "fail_close", "fail_term",
     "fail_sleep", "stop_close", "stop_term"}
PreviewPositions == {"preview_pull", "preview_show"}

\* C20: in mode 'preview' the program never runs run_stream: it spawns no
\* subprocess and writes to no pipe; in mode 'stream' it never runs
\* run_preview.
C20_DispatchByMode ==
    /\ mode = "preview"
          => (procs = <<>> /\ written = <<>> /\ pc \notin StreamPositions)
    /\ mode = "stream" => pc \notin PreviewPositions

====
